---------------------------- MODULE Spec2Model ----------------------------
(***************************************************************************)
(* Value-flow computation engine of the km examples (takeaway, bill234):   *)
(* the phase retry engine (retry_framework.py), the formula validator and  *)
(* executor (execution.py, validators.py), the per-conversation value     *)
(* store kept by the turn loop (test_example.py) and the SQLite cache of   *)
(* the knowledge graphs (bill234 execution.py).                            *)
(*                                                                         *)
(* Each part has its own specification over its own variables; the         *)
(* variables of the other parts keep their initial values.                 *)
(***************************************************************************)
EXTENDS Integers, Sequences, FiniteSets, TLC

VARIABLES
    \* ---- retry_framework.py --------------------------------------------
    max_retries,    \* argument of the call in progress
    rpr,            \* frame of run_phase_with_retry: pc, attempt, error_context, result, exit
    exe,            \* frame of PhaseExecutor.execute: the same, plus initial_attempt
    metrics,        \* PhaseExecutor.metrics
    metrics_before, \* PhaseExecutor.get_metrics() taken by the caller before the call
    outcomes,       \* what the stage and the validator did at each attempt of this call
    rpr_calls,      \* the argument run_phase_with_retry passed to phase_func, per invocation
    exe_calls,      \* the argument PhaseExecutor.execute passed to phase_func, per invocation
    n_calls,        \* calls started so far
    \* ---- execution.py: validate_formula, execute_formula ----------------
    arg_formula,    \* the formula text of the last call
    arg_names,      \* the names the validator was given
    arg_objects,    \* the bindings of the last execute_formula call
    validated,      \* what validate_formula returned or raised
    eval_result,    \* what eval returned or raised, NotRun if it was not reached
    executed,       \* what execute_formula returned or raised
    executed_bill234,   \* what bill234's execute_formula did on the same arguments
    n_chained,      \* how many results have been bound for a later formula
    \* ---- __tests__/test_example.py: the turn loop ------------------------
    results_by_name,        \* context['results_by_name']
    previous_results,       \* previous_results
    llm_extracted_values,   \* context['llm_extracted_values'], when the key is present
    results,                \* results: one entry per turn run
    frame,                  \* the loop's local variables
    \* ---- bill234 execution.py: the knowledge-graph cache -----------------
    turtle,         \* the <example_id>_kg.ttl files: st_mtime and the triples written
    db,             \* .kg_cache.db: exists, cache_metadata rows, triples per graph identifier
    graph,          \* what the last load_graph call returned
    ops,            \* the calls made and the file changes so far
    now             \* the clock the file system stamps changes with

retryVars ==
    <<max_retries, rpr, exe, metrics, metrics_before, outcomes, rpr_calls,
      exe_calls, n_calls>>

formulaVars ==
    <<arg_formula, arg_names, arg_objects, validated, eval_result, executed,
      executed_bill234, n_chained>>

turnVars == <<results_by_name, previous_results, llm_extracted_values, results, frame>>

cacheVars == <<turtle, db, graph, ops, now>>

vars == <<retryVars, formulaVars, turnVars, cacheVars>>

-----------------------------------------------------------------------------
(* Bounds *)

MaxRetries == 2
MaxCalls == 2
MaxTurns == 2
MaxChain == 1
MaxOps == 4

-----------------------------------------------------------------------------
(***************************************************************************)
(* retry_framework.py                                                      *)
(*                                                                         *)
(* The stage function and the validator are opaque: at each attempt the    *)
(* stage either returns a result or raises, and the validator either       *)
(* returns a list of error strings (empty: valid) or raises.  What is      *)
(* raised is an instance of Exception, the class the engine's handler      *)
(* names.  Both entry points of the module are run on the same sequence of *)
(* outcomes, so that their frames can be compared attempt by attempt.      *)
(***************************************************************************)

None == "None"

Results == {"r1", "r2"}
Messages == {"boom", "timeout"}
ErrorLists == {<<"e1">>, <<"e2", "e3">>}

\* f"Exception: {str(e)}"
ExceptionText(m) == IF m = "boom" THEN "Exception: boom" ELSE "Exception: timeout"

StageOutcomes ==
    [kind : {"returns"}, result : Results, errors : ErrorLists \cup {<<>>}]
    \cup [kind : {"stage_raises"}, message : Messages]
    \cup [kind : {"validator_raises"}, result : Results, message : {"boom"}]

\* phase_func() is called without the error_context keyword
NoArgument == [kind |-> "no_argument"]

NoContext == [kind |-> "None"]

NoExit == [kind |-> "running"]

\* error_context = {'attempt': ..., 'errors': ..., 'previous_result': ...}
ErrorContext(a, errs, prev) ==
    [kind |-> "context", attempt |-> a, errors |-> errs, previous_result |-> prev]

\* as ContextAfter, the attempt field naming the attempt that failed
ContextAfterSameAttempt(a, o) ==
    IF o.kind = "returns"
    THEN ErrorContext(a, o.errors, o.result)
    ELSE ErrorContext(a, <<ExceptionText(o.message)>>, None)

\* the context the handlers build after attempt number a ended with outcome o
ContextAfter(a, o) ==
    IF o.kind = "returns"
    THEN ErrorContext(a + 1, o.errors, o.result)
    ELSE ErrorContext(a + 1, <<ExceptionText(o.message)>>, None)

\* final_errors = error_context['errors'] if error_context else ['Unknown error']
FinalErrors(ctx) == IF ctx # NoContext THEN ctx.errors ELSE <<"Unknown error">>

\* ValidationError(f"{phase_name} failed after {max_retries + 1} attempts. Errors: {final_errors}")
ValidationError(mr, ctx) ==
    [kind |-> "raise", type |-> "ValidationError",
     attempts |-> mr + 1, errors |-> FinalErrors(ctx)]

Returned(r) == [kind |-> "return", value |-> r]

\* the value the local variable result holds after an attempt with outcome o
ResultAfter(old, o) == IF o.kind = "stage_raises" THEN old ELSE o.result

Succeeds(o) == o.kind = "returns" /\ o.errors = <<>>

\* run_phase_with_retry: the argument of this attempt's phase_func call
RunPhaseArgument(f) == IF f.attempt = 0 THEN NoArgument ELSE f.error_context

\* as RunPhaseAttempt, an attempt that raised not counting as an attempt
RunPhaseAttemptUncounted(f, o) ==
    IF Succeeds(o)
    THEN [f EXCEPT !.pc = "returned", !.result = o.result, !.exit = Returned(o.result)]
    ELSE [f EXCEPT !.attempt = IF o.kind = "returns" THEN f.attempt + 1 ELSE f.attempt,
                   !.result = ResultAfter(f.result, o),
                   !.error_context = ContextAfter(f.attempt, o)]

\* as RunPhaseAttempt, returning whatever the stage returned
RunPhaseAttemptUnchecked(f, o) ==
    IF o.kind = "returns"
    THEN [f EXCEPT !.pc = "returned", !.result = o.result, !.exit = Returned(o.result)]
    ELSE [f EXCEPT !.attempt = f.attempt + 1,
                   !.result = ResultAfter(f.result, o),
                   !.error_context = ContextAfter(f.attempt, o)]

\* as RunPhaseAttempt, the handler putting the local result in the context
RunPhaseAttemptCarry(f, o) ==
    IF Succeeds(o)
    THEN [f EXCEPT !.pc = "returned", !.result = o.result, !.exit = Returned(o.result)]
    ELSE [f EXCEPT !.attempt = f.attempt + 1,
                   !.result = ResultAfter(f.result, o),
                   !.error_context =
                       IF o.kind = "returns"
                       THEN ContextAfter(f.attempt, o)
                       ELSE ErrorContext(f.attempt + 1, <<ExceptionText(o.message)>>,
                                         IF f.result = "unbound" THEN None ELSE f.result)]

\* as RunPhaseAttempt, the handler leaving error_context as it was
RunPhaseAttemptKeep(f, o) ==
    IF Succeeds(o)
    THEN [f EXCEPT !.pc = "returned", !.result = o.result, !.exit = Returned(o.result)]
    ELSE [f EXCEPT !.attempt = f.attempt + 1,
                   !.result = ResultAfter(f.result, o),
                   !.error_context =
                       IF o.kind = "returns" THEN ContextAfter(f.attempt, o) ELSE @]

\* as RunPhaseAttempt, the validator called outside the try block
RunPhaseAttemptEscape(f, o) ==
    IF Succeeds(o)
    THEN [f EXCEPT !.pc = "returned", !.result = o.result, !.exit = Returned(o.result)]
    ELSE IF o.kind = "validator_raises"
    THEN [f EXCEPT !.pc = "raised", !.result = o.result,
                   !.exit = [kind |-> "raise", type |-> "Exception",
                             attempts |-> f.attempt + 1,
                             errors |-> <<o.message>>]]
    ELSE [f EXCEPT !.attempt = f.attempt + 1,
                   !.result = ResultAfter(f.result, o),
                   !.error_context = ContextAfter(f.attempt, o)]

\* run_phase_with_retry: one iteration of the for loop, the stage and the
\* validator behaving as o says
RunPhaseAttempt(f, o) ==
    IF Succeeds(o)
    THEN [f EXCEPT !.pc = "returned", !.result = o.result, !.exit = Returned(o.result)]
    ELSE [f EXCEPT !.attempt = f.attempt + 1,
                   !.result = ResultAfter(f.result, o),
                   !.error_context = ContextAfter(f.attempt, o)]

\* run_phase_with_retry: the code after the loop
RunPhaseExhausted(f, mr) ==
    [f EXCEPT !.pc = "raised", !.exit = ValidationError(mr, f.error_context)]

\* PhaseExecutor.execute: the argument of this attempt's phase_func call
ExecuteArgument(f) == IF f.initial_attempt THEN NoArgument ELSE f.error_context

\* PhaseExecutor.execute: one iteration of the for loop.  initial_attempt is
\* cleared after phase_func() returns, so not when it raises.
ExecuteAttempt(f, o) ==
    LET still_initial == IF f.initial_attempt THEN o.kind = "stage_raises" ELSE FALSE
    IN  IF Succeeds(o)
        THEN [f EXCEPT !.pc = "returned", !.initial_attempt = FALSE,
                       !.result = o.result, !.exit = Returned(o.result)]
        ELSE [f EXCEPT !.attempt = f.attempt + 1,
                       !.initial_attempt = still_initial,
                       !.result = ResultAfter(f.result, o),
                       !.error_context = ContextAfter(f.attempt, o)]

\* as ExecuteMetrics, every attempt counted as a retry
ExecuteMetricsEveryAttempt(m, f, o) ==
    IF Succeeds(o)
    THEN [m EXCEPT !.retries_attempted = @ + 1,
                   !.retries_succeeded = @ + (IF f.attempt > 0 THEN 1 ELSE 0)]
    ELSE [m EXCEPT !.retries_attempted = @ + 1,
                   !.validations_failed = @ + 1]

\* PhaseExecutor.execute: the metrics after one iteration
ExecuteMetrics(m, f, o) ==
    LET retried == IF f.initial_attempt THEN 0 ELSE 1
    IN  IF Succeeds(o)
        THEN [m EXCEPT !.retries_attempted = @ + retried,
                       !.retries_succeeded = @ + (IF f.attempt > 0 THEN 1 ELSE 0)]
        ELSE [m EXCEPT !.retries_attempted = @ + retried,
                       !.validations_failed = @ + 1]

\* PhaseExecutor.execute: the code after the loop
ExecuteExhausted(f, mr) ==
    [f EXCEPT !.pc = "raised", !.exit = ValidationError(mr, f.error_context)]

NewFrame ==
    [pc |-> "loop", attempt |-> 0, error_context |-> NoContext,
     result |-> "unbound", exit |-> NoExit]

IdleFrame == [NewFrame EXCEPT !.pc = "idle"]

InitRetry ==
    /\ max_retries = 0
    /\ rpr = IdleFrame
    /\ exe = [initial_attempt |-> TRUE] @@ IdleFrame
    /\ metrics = [phases_executed |-> 0, validations_failed |-> 0,
                  retries_attempted |-> 0, retries_succeeded |-> 0,
                  phases_failed |-> 0]
    /\ metrics_before = metrics
    /\ outcomes = <<>>
    /\ rpr_calls = <<>>
    /\ exe_calls = <<>>
    /\ n_calls = 0

\* a caller invokes run_phase_with_retry and PhaseExecutor.execute with the
\* same stage, validator and max_retries
StartCall ==
    /\ rpr.pc # "loop"
    /\ n_calls < MaxCalls
    /\ \E mr \in -1 .. MaxRetries :
          max_retries' = mr
    /\ rpr' = NewFrame
    /\ exe' = [initial_attempt |-> TRUE] @@ NewFrame
    /\ metrics_before' = metrics
    /\ metrics' = [metrics EXCEPT !.phases_executed = @ + 1]
    /\ outcomes' = <<>>
    /\ rpr_calls' = <<>>
    /\ exe_calls' = <<>>
    /\ n_calls' = n_calls + 1
    /\ UNCHANGED <<formulaVars, turnVars, cacheVars>>

\* for attempt in range(max_retries + 1): ...
Attempt ==
    /\ rpr.pc = "loop"
    /\ exe.pc = "loop"
    /\ rpr.attempt <= max_retries
    /\ \E o \in StageOutcomes :
          /\ rpr' = RunPhaseAttempt(rpr, o)
          /\ exe' = ExecuteAttempt(exe, o)
          /\ metrics' = ExecuteMetrics(metrics, exe, o)
          /\ outcomes' = Append(outcomes, o)
    /\ rpr_calls' = Append(rpr_calls, RunPhaseArgument(rpr))
    /\ exe_calls' = Append(exe_calls, ExecuteArgument(exe))
    /\ UNCHANGED <<max_retries, metrics_before, n_calls>>
    /\ UNCHANGED <<formulaVars, turnVars, cacheVars>>

\* the loop is over without a return: raise ValidationError
Exhausted ==
    /\ rpr.pc = "loop"
    /\ exe.pc = "loop"
    /\ rpr.attempt > max_retries
    /\ rpr' = RunPhaseExhausted(rpr, max_retries)
    /\ exe' = ExecuteExhausted(exe, max_retries)
    /\ metrics' = [metrics EXCEPT !.phases_failed = @ + 1]
    /\ UNCHANGED <<max_retries, metrics_before, outcomes, rpr_calls, exe_calls, n_calls>>
    /\ UNCHANGED <<formulaVars, turnVars, cacheVars>>

NextRetry == StartCall \/ Attempt \/ Exhausted

-----------------------------------------------------------------------------
(***************************************************************************)
(* execution.py: formula text and ast.parse(formula, mode='eval')          *)
(*                                                                         *)
(* A formula is a string; it is modelled by the sequence of its lexemes    *)
(* (names, numbers, string literals, operators, keywords, blanks).         *)
(* ast.parse is modelled by a recursive-descent parser of the part of      *)
(* Python's expression grammar these lexemes can spell:                    *)
(*                                                                         *)
(*   test       ::= 'lambda' ':' test | comparison ['if' comparison        *)
(*                                                   'else' test]          *)
(*   comparison ::= arith ('<' arith)*                                     *)
(*   arith      ::= term (('+' | '-') term)*                               *)
(*   term       ::= factor (('*' | '/') factor)*                           *)
(*   factor     ::= ('-' | '+') factor | power                             *)
(*   power      ::= primary ['**' factor]                                  *)
(*   primary    ::= atom ('(' [test (',' test)* [',']] ')' | '.' NAME)*    *)
(*   atom       ::= NAME | NUMBER | STRING | '(' test ')'                  *)
(***************************************************************************)

\* the functions execute_formula puts in safe_dict and validate_formula allows
BuiltinNames ==
    {"abs", "min", "max", "round", "to_percentage",
     "in_millions", "in_thousands", "in_billions"}

\* names that bindings may carry
ValueNames == {"a", "b"}

NameTokens == ValueNames \cup BuiltinNames \cup {"z", "foo", "real"}
NumberTokens == {"0", "2", "100"}
StringTokens == {"'s'"}

Blank == " "

\* the tokenizer drops blanks
Lex(text) == SelectSeq(text, LAMBDA k : k # Blank)

Tok(t, i) == IF i \in 1 .. Len(t) THEN t[i] ELSE "ENDMARKER"

\* the nodes of the tree are records named after the ast classes: Name(id),
\* Constant(value), BinOp(left, op, right), UnaryOp(op, operand),
\* Compare(left, comparators), IfExp(test, body, orelse), Lambda(body),
\* Call(func, args), Attribute(value, attr)
BinOp(l, op, r) == [type |-> "BinOp", left |-> l, op |-> op, right |-> r]

Parsed(n, i) == [ok |-> TRUE, node |-> n, next |-> i]
NotParsed == [ok |-> FALSE, node |-> [type |-> "Constant", value |-> "0"], next |-> 0]

RECURSIVE ParseTest(_, _)
RECURSIVE ParseComparators(_, _, _)
RECURSIVE ParseArithRest(_, _)
RECURSIVE ParseTermRest(_, _)
RECURSIVE ParseFactor(_, _)
RECURSIVE ParseTrailers(_, _)
RECURSIVE ParseArgs(_, _, _)

\* '(' test ')': after the test r
AtomClose(t, r) ==
    IF r.ok /\ Tok(t, r.next) = ")" THEN Parsed(r.node, r.next + 1) ELSE NotParsed

ParseAtom(t, i) ==
    IF Tok(t, i) \in NameTokens THEN Parsed([type |-> "Name", id |-> Tok(t, i)], i + 1)
    ELSE IF Tok(t, i) \in NumberTokens \cup StringTokens
    THEN Parsed([type |-> "Constant", value |-> Tok(t, i)], i + 1)
    ELSE IF Tok(t, i) = "(" THEN AtomClose(t, ParseTest(t, i + 1))
    ELSE NotParsed

\* an argument list: after the argument r
ArgsNext(t, acc, r) ==
    IF ~r.ok THEN NotParsed
    ELSE IF Tok(t, r.next) = "," THEN ParseArgs(t, r.next + 1, Append(acc, r.node))
    ELSE IF Tok(t, r.next) = ")" THEN Parsed(Append(acc, r.node), r.next + 1)
    ELSE NotParsed

\* the argument list of a call, from after its '(' or after a ','
ParseArgs(t, i, acc) ==
    IF Tok(t, i) = ")" THEN Parsed(acc, i + 1) ELSE ArgsNext(t, acc, ParseTest(t, i))

\* a call of the primary p with the argument list a
TrailerCall(t, p, a) ==
    IF a.ok THEN ParseTrailers(t, Parsed([type |-> "Call", func |-> p.node, args |-> a.node], a.next)) ELSE NotParsed

\* calls and attribute references after the primary p
ParseTrailers(t, p) ==
    IF ~p.ok THEN NotParsed
    ELSE IF Tok(t, p.next) = "."
    THEN IF Tok(t, p.next + 1) \in NameTokens
         THEN ParseTrailers(t, Parsed([type |-> "Attribute", value |-> p.node,
                                       attr |-> Tok(t, p.next + 1)], p.next + 2))
         ELSE NotParsed
    ELSE IF Tok(t, p.next) = "(" THEN TrailerCall(t, p, ParseArgs(t, p.next + 1, <<>>))
    ELSE p

ParsePrimary(t, i) == ParseTrailers(t, ParseAtom(t, i))

PowerOf(p, f) == IF f.ok THEN Parsed(BinOp(p.node, "**", f.node), f.next) ELSE NotParsed

\* ['**' factor] after the primary p
PowerRest(t, p) ==
    IF p.ok /\ Tok(t, p.next) = "**" THEN PowerOf(p, ParseFactor(t, p.next + 1)) ELSE p

ParsePower(t, i) == PowerRest(t, ParsePrimary(t, i))

UnaryOf(op, f) ==
    IF f.ok THEN Parsed([type |-> "UnaryOp", op |-> op, operand |-> f.node], f.next)
    ELSE NotParsed

ParseFactor(t, i) ==
    IF Tok(t, i) \in {"-", "+"}
    THEN UnaryOf(Tok(t, i), ParseFactor(t, i + 1))
    ELSE ParsePower(t, i)

\* l op f, and the rest of the term
TermOf(t, l, f) ==
    IF f.ok
    THEN ParseTermRest(t, Parsed(BinOp(l.node, Tok(t, l.next), f.node), f.next))
    ELSE NotParsed

\* (('*' | '/') factor)* after the left operand l
ParseTermRest(t, l) ==
    IF ~l.ok THEN NotParsed
    ELSE IF Tok(t, l.next) \in {"*", "/"} THEN TermOf(t, l, ParseFactor(t, l.next + 1))
    ELSE l

ParseTerm(t, i) == ParseTermRest(t, ParseFactor(t, i))

\* l op r, and the rest of the arithmetic expression
ArithOf(t, l, r) ==
    IF r.ok
    THEN ParseArithRest(t, Parsed(BinOp(l.node, Tok(t, l.next), r.node), r.next))
    ELSE NotParsed

\* (('+' | '-') term)* after the left operand l
ParseArithRest(t, l) ==
    IF ~l.ok THEN NotParsed
    ELSE IF Tok(t, l.next) \in {"+", "-"} THEN ArithOf(t, l, ParseTerm(t, l.next + 1))
    ELSE l

ParseArith(t, i) == ParseArithRest(t, ParseTerm(t, i))

ComparatorsNext(t, acc, r) ==
    IF r.ok THEN ParseComparators(t, r.next, Append(acc, r.node)) ELSE NotParsed

\* ('<' arith)* after position i, the comparators so far in acc
ParseComparators(t, i, acc) ==
    IF Tok(t, i) = "<" THEN ComparatorsNext(t, acc, ParseArith(t, i + 1)) ELSE Parsed(acc, i)

CompareOf(l, c) ==
    IF ~c.ok THEN NotParsed
    ELSE IF c.node = <<>> THEN l
    ELSE Parsed([type |-> "Compare", left |-> l.node, comparators |-> c.node], c.next)

ComparisonFrom(t, l) ==
    IF ~l.ok THEN NotParsed ELSE CompareOf(l, ParseComparators(t, l.next, <<>>))

ParseComparison(t, i) == ComparisonFrom(t, ParseArith(t, i))

LambdaOf(b) ==
    IF b.ok THEN Parsed([type |-> "Lambda", body |-> b.node], b.next) ELSE NotParsed

IfExpOf(x, c, y) ==
    IF y.ok
    THEN Parsed([type |-> "IfExp", test |-> c.node, body |-> x.node, orelse |-> y.node],
                y.next)
    ELSE NotParsed

\* x 'if' c: 'else' test must follow
IfExpElse(t, x, c) ==
    IF c.ok /\ Tok(t, c.next) = "else"
    THEN IfExpOf(x, c, ParseTest(t, c.next + 1))
    ELSE NotParsed

\* ['if' comparison 'else' test] after the comparison x
TestFrom(t, x) ==
    IF x.ok /\ Tok(t, x.next) = "if"
    THEN IfExpElse(t, x, ParseComparison(t, x.next + 1))
    ELSE x

ParseTest(t, i) ==
    IF Tok(t, i) = "lambda"
    THEN IF Tok(t, i + 1) = ":" THEN LambdaOf(ParseTest(t, i + 2)) ELSE NotParsed
    ELSE TestFrom(t, ParseComparison(t, i))

\* the whole text must be one expression
ParseWhole(formula, t, r) ==
    IF formula # <<>> /\ formula[1] = Blank
    THEN NotParsed      \* IndentationError, a SyntaxError
    ELSE IF r.ok /\ r.next = Len(t) + 1 THEN r ELSE NotParsed

\* ast.parse(formula, mode='eval'): the tree, or not ok for a SyntaxError
Parse(formula) == ParseWhole(formula, Lex(formula), ParseTest(Lex(formula), 1))

RECURSIVE WalkNames(_)
RECURSIVE WalkNamesSeq(_)

WalkNamesSeq(nodes) ==
    IF nodes = <<>> THEN {}
    ELSE WalkNames(Head(nodes)) \cup WalkNamesSeq(Tail(nodes))

\* {node.id for node in ast.walk(tree) if isinstance(node, ast.Name)}
WalkNames(n) ==
    CASE n.type = "Name" -> {n.id}
      [] n.type = "Constant" -> {}
      [] n.type = "BinOp" -> WalkNames(n.left) \cup WalkNames(n.right)
      [] n.type = "UnaryOp" -> WalkNames(n.operand)
      [] n.type = "Compare" -> WalkNames(n.left) \cup WalkNamesSeq(n.comparators)
      [] n.type = "IfExp" ->
            WalkNames(n.test) \cup WalkNames(n.body) \cup WalkNames(n.orelse)
      [] n.type = "Lambda" -> WalkNames(n.body)
      [] n.type = "Call" -> WalkNames(n.func) \cup WalkNamesSeq(n.args)
      [] n.type = "Attribute" -> WalkNames(n.value)

\* as ValidateTree, the function names not added to the allowed names
ValidateTreeVariablesOnly(tree, variable_names) ==
    IF ~tree.ok
    THEN [kind |-> "raise", type |-> "SyntaxError"]
    ELSE IF WalkNames(tree.node) \ variable_names # {}
    THEN [kind |-> "raise", type |-> "ValueError",
          undefined |-> WalkNames(tree.node) \ variable_names,
          available |-> variable_names]
    ELSE [kind |-> "return", value |-> TRUE]

\* as ValidateTree, the names not compared with the allowed names
ValidateTreeSyntaxOnly(tree, variable_names) ==
    IF ~tree.ok
    THEN [kind |-> "raise", type |-> "SyntaxError"]
    ELSE [kind |-> "return", value |-> TRUE]

\* the outcome of validate_formula once the text is parsed
ValidateTree(tree, variable_names) ==
    IF ~tree.ok
    THEN [kind |-> "raise", type |-> "SyntaxError"]
    ELSE IF WalkNames(tree.node) \ (variable_names \cup BuiltinNames) # {}
    THEN [kind |-> "raise", type |-> "ValueError",
          undefined |-> WalkNames(tree.node) \ (variable_names \cup BuiltinNames),
          available |-> variable_names]
    ELSE [kind |-> "return", value |-> TRUE]

\* validate_formula(formula, variable_names): True, or the exception raised
validate_formula(formula, variable_names) == ValidateTree(Parse(formula), variable_names)

\* validators.py, validate_phase2b_formula(formula, available_vars): the
\* list of error messages
validate_phase2b_formula(formula, available_vars) ==
    IF formula = <<>>
    THEN <<[error |-> "Formula must be a non-empty string"]>>
    ELSE IF ~Parse(formula).ok
    THEN <<[error |-> "Formula has syntax error"]>>
    ELSE IF WalkNames(Parse(formula).node) \ available_vars # {}
    THEN <<[error |-> "Formula uses undefined variables",
            undefined_vars |-> WalkNames(Parse(formula).node) \ available_vars,
            available_set |-> available_vars]>>
    ELSE <<>>

-----------------------------------------------------------------------------
(***************************************************************************)
(* execution.py: numbers.                                                  *)
(*                                                                         *)
(* A Python number is modelled by the rational n/d * 10^e in its unique    *)
(* normal form (d > 0 prime to 10 and to n, n not a multiple of 10, zero   *)
(* as 0/1 * 10^0), so that equal numbers are equal records and the scale   *)
(* factors up to 1_000_000_000 and their products stay within TLC's        *)
(* integers.  Floating-point rounding is not modelled.                     *)
(***************************************************************************)

RECURSIVE Gcd(_, _)
Gcd(x, y) == IF y = 0 THEN x ELSE Gcd(y, x % y)

\* n and d prime to each other, d > 0, n # 0
RECURSIVE Tens(_, _, _)
Tens(n, d, e) ==
    IF n % 10 = 0 THEN Tens(n \div 10, d, e + 1)
    ELSE IF d % 2 = 0 THEN Tens(n * 5, d \div 2, e - 1)
    ELSE IF d % 5 = 0 THEN Tens(n * 2, d \div 5, e - 1)
    ELSE [t |-> "num", n |-> n, d |-> d, e |-> e]

\* the number n/d * 10^e (d # 0)
Num(n, d, e) ==
    LET g == Gcd(IF n < 0 THEN -n ELSE n, IF d < 0 THEN -d ELSE d)
        sign == IF d < 0 THEN -1 ELSE 1
    IN  IF n = 0
        THEN [t |-> "num", n |-> 0, d |-> 1, e |-> 0]
        ELSE Tens((sign * n) \div g, (sign * d) \div g, e)

IntNum(k) == Num(k, 1, 0)

RECURSIVE Pow10(_)
Pow10(k) == IF k = 0 THEN 1 ELSE 10 * Pow10(k - 1)

MinOf(x, y) == IF x < y THEN x ELSE y

\* the numerator of x over the common exponent MinOf(x.e, y.e)
Aligned(x, y) == x.n * Pow10(x.e - MinOf(x.e, y.e))

NumAdd(x, y) ==
    IF x.n = 0 THEN y
    ELSE IF y.n = 0 THEN x
    ELSE Num(Aligned(x, y) * y.d + Aligned(y, x) * x.d, x.d * y.d, MinOf(x.e, y.e))
NumNeg(x) == Num(-x.n, x.d, x.e)
NumMul(x, y) == Num(x.n * y.n, x.d * y.d, x.e + y.e)
\* y # 0
NumDiv(x, y) == Num(x.n * y.d, x.d * y.n, x.e - y.e)
NumLess(x, y) ==
    IF x.n = 0 THEN y.n > 0
    ELSE IF y.n = 0 THEN x.n < 0
    ELSE Aligned(x, y) * y.d < Aligned(y, x) * x.d
NumIsZero(x) == x.n = 0
NumIsInteger(x) == x.d = 1 /\ x.e >= 0

\* round half to even of whole + r/d, for an integer whole and 0 <= r < d
RoundHalfEven(whole, r, d) ==
    IF 2 * r < d THEN whole
    ELSE IF 2 * r > d THEN NumAdd(whole, IntNum(1))
    ELSE IF whole.e > 0 \/ whole.n % 2 = 0 THEN whole ELSE NumAdd(whole, IntNum(1))

\* long division: the whole part and the remainder of (whole + r/d) * 10^steps
RECURSIVE LongDivision(_, _, _, _)
LongDivision(whole, r, d, steps) ==
    IF steps = 0 THEN [whole |-> whole, r |-> r]
    ELSE LongDivision(NumAdd(NumMul(whole, IntNum(10)), IntNum((r * 10) \div d)),
                      (r * 10) % d, d, steps - 1)

\* round(x, ndigits) for ndigits >= 0
NumRound(x, ndigits) ==
    LET shift == x.e + ndigits
        q == IF shift >= 0
             THEN LongDivision(IntNum(x.n \div x.d), x.n % x.d, x.d, shift)
             ELSE [whole |-> IntNum(x.n \div (x.d * Pow10(-shift))),
                   r |-> x.n % (x.d * Pow10(-shift))]
        den == IF shift >= 0 THEN x.d ELSE x.d * Pow10(-shift)
    IN  NumDiv(RoundHalfEven(q.whole, q.r, den), Num(1, 1, ndigits))

\* the value of a number lexeme
NumberValue(k) == IF k = "0" THEN IntNum(0) ELSE IF k = "2" THEN IntNum(2) ELSE IntNum(100)

SCALE_FACTORS ==
    [Units |-> IntNum(1), Thousands |-> IntNum(1000),
     Millions |-> IntNum(1000000), Billions |-> IntNum(1000000000)]

\* SCALE_FACTORS.get(scale, 1)
ScaleFactor(scale) == IF scale \in DOMAIN SCALE_FACTORS THEN SCALE_FACTORS[scale] ELSE IntNum(1)

-----------------------------------------------------------------------------
(***************************************************************************)
(* execution.py: eval(formula, safe_dict)                                  *)
(*                                                                         *)
(* Python values: numbers, booleans, strings and functions; an evaluation  *)
(* that raises yields the exception.  Operations on strings that Python    *)
(* defines (concatenation, repetition, ordering) are outside the model:    *)
(* they yield Unmodelled, which no formula of the model reaches.           *)
(***************************************************************************)

Bool(b) == [t |-> "bool", v |-> b]
Str(k) == [t |-> "str", v |-> k]
Function(name) == [t |-> "function", name |-> name]
Closure(body) == [t |-> "function", name |-> "<lambda>", body |-> body]
Raises(type) == [t |-> "error", type |-> type]
Unmodelled == Raises("Unmodelled")

IsError(v) == v.t = "error"
IsNumeric(v) == v.t \in {"num", "bool"}
\* bool is a subclass of int
AsNum(v) == IF v.t = "bool" THEN IntNum(IF v.v THEN 1 ELSE 0) ELSE v
Truthy(v) ==
    CASE v.t = "num" -> ~NumIsZero(v)
      [] v.t = "bool" -> v.v
      [] OTHER -> TRUE

\* decimal_ratio * 100
to_percentage(decimal_ratio) == NumMul(decimal_ratio, IntNum(100))
\* as in_millions, dividing by the factor of Thousands
in_millions_by_thousands(value) == NumDiv(value, SCALE_FACTORS["Thousands"])

\* value / SCALE_FACTORS['Millions']
in_millions(value) == NumDiv(value, SCALE_FACTORS["Millions"])
in_thousands(value) == NumDiv(value, SCALE_FACTORS["Thousands"])
in_billions(value) == NumDiv(value, SCALE_FACTORS["Billions"])

\* x op y for the binary operators of the grammar
ApplyBinOp(op, x, y) ==
    IF x.t = "str" \/ y.t = "str"
    THEN \* str + str and str * int are defined, every other use raises
         IF op = "+" /\ x.t = "str" /\ y.t = "str" THEN Unmodelled
         ELSE IF /\ op = "*"
                 /\ x.t # y.t
                 /\ IsNumeric(x) \/ IsNumeric(y)
                 /\ IsNumeric(x) => NumIsInteger(AsNum(x))
                 /\ IsNumeric(y) => NumIsInteger(AsNum(y))
         THEN Unmodelled
         ELSE Raises("TypeError")
    ELSE IF ~(IsNumeric(x) /\ IsNumeric(y)) THEN Raises("TypeError")
    ELSE LET l == AsNum(x)
             r == AsNum(y)
         IN  CASE op = "+" -> NumAdd(l, r)
               [] op = "-" -> NumAdd(l, NumNeg(r))
               [] op = "*" -> NumMul(l, r)
               [] op = "/" ->
                     IF NumIsZero(r) THEN Raises("ZeroDivisionError") ELSE NumDiv(l, r)
               [] op = "**" ->
                     IF r = IntNum(2) THEN NumMul(l, l)
                     ELSE IF r = IntNum(0) THEN IntNum(1)
                     ELSE Unmodelled

\* a call of the function f with the evaluated arguments xs
ApplyBuiltin(f, xs) ==
    LET n == Len(xs)
        numeric == \A i \in 1 .. n : IsNumeric(xs[i])
        least(i, j) == IF NumLess(AsNum(xs[j]), AsNum(xs[i])) THEN j ELSE i
    IN  IF \E i \in 1 .. n : xs[i].t = "str" THEN Unmodelled
        ELSE IF ~numeric THEN Raises("TypeError")
        ELSE CASE f = "abs" ->
                    IF n # 1 THEN Raises("TypeError")
                    ELSE IF NumLess(AsNum(xs[1]), IntNum(0)) THEN NumNeg(AsNum(xs[1]))
                    ELSE AsNum(xs[1])
               [] f \in {"min", "max"} ->
                    \* one number is not an iterable; the model has up to two arguments
                    IF n # 2 THEN (IF n < 2 THEN Raises("TypeError") ELSE Unmodelled)
                    ELSE IF f = "min" THEN xs[least(1, 2)]
                    ELSE xs[IF NumLess(AsNum(xs[1]), AsNum(xs[2])) THEN 2 ELSE 1]
               [] f = "round" ->
                    IF n = 1 THEN NumRound(AsNum(xs[1]), 0)
                    ELSE IF n = 2
                    THEN IF AsNum(xs[2]) \in {IntNum(0), IntNum(2)}
                         THEN NumRound(AsNum(xs[1]), IF AsNum(xs[2]) = IntNum(0) THEN 0 ELSE 2)
                         ELSE Unmodelled
                    ELSE Raises("TypeError")
               [] f = "to_percentage" ->
                    IF n # 1 THEN Raises("TypeError") ELSE to_percentage(AsNum(xs[1]))
               [] f = "in_millions" ->
                    IF n # 1 THEN Raises("TypeError") ELSE in_millions(AsNum(xs[1]))
               [] f = "in_thousands" ->
                    IF n # 1 THEN Raises("TypeError") ELSE in_thousands(AsNum(xs[1]))
               [] f = "in_billions" ->
                    IF n # 1 THEN Raises("TypeError") ELSE in_billions(AsNum(xs[1]))

RECURSIVE Eval(_, _)
RECURSIVE EvalArgs(_, _, _)
RECURSIVE EvalChain(_, _, _)

\* the arguments of a call, left to right, up to the first that raises
EvalArgs(nodes, env, acc) ==
    IF nodes = <<>> THEN [t |-> "args", xs |-> acc]
    ELSE LET v == Eval(Head(nodes), env)
         IN  IF IsError(v) THEN v ELSE EvalArgs(Tail(nodes), env, Append(acc, v))

\* left < c1 < c2 ...: each comparison in turn, stopping at the first false one
EvalChain(left, nodes, env) ==
    IF nodes = <<>> THEN Bool(TRUE)
    ELSE LET r == Eval(Head(nodes), env)
         IN  IF IsError(r) THEN r
             ELSE IF left.t = "str" /\ r.t = "str" THEN Unmodelled
             ELSE IF ~(IsNumeric(left) /\ IsNumeric(r)) THEN Raises("TypeError")
             ELSE IF ~NumLess(AsNum(left), AsNum(r)) THEN Bool(FALSE)
             ELSE EvalChain(r, Tail(nodes), env)

\* the value of the expression n in the environment env (name -> value)
Eval(n, env) ==
    CASE n.type = "Name" -> IF n.id \in DOMAIN env THEN env[n.id] ELSE Raises("NameError")
      [] n.type = "Constant" ->
            IF n.value \in NumberTokens THEN NumberValue(n.value) ELSE Str(n.value)
      [] n.type = "BinOp" ->
            LET l == Eval(n.left, env)
            IN  IF IsError(l) THEN l
                ELSE LET r == Eval(n.right, env)
                     IN  IF IsError(r) THEN r ELSE ApplyBinOp(n.op, l, r)
      [] n.type = "UnaryOp" ->
            LET x == Eval(n.operand, env)
            IN  IF IsError(x) THEN x
                ELSE IF ~IsNumeric(x) THEN Raises("TypeError")
                ELSE IF n.op = "-" THEN NumNeg(AsNum(x)) ELSE AsNum(x)
      [] n.type = "Compare" ->
            LET l == Eval(n.left, env)
            IN  IF IsError(l) THEN l ELSE EvalChain(l, n.comparators, env)
      [] n.type = "IfExp" ->
            LET c == Eval(n.test, env)
            IN  IF IsError(c) THEN c
                ELSE IF Truthy(c) THEN Eval(n.body, env) ELSE Eval(n.orelse, env)
      [] n.type = "Lambda" -> Closure(n.body)
      [] n.type = "Call" ->
            LET f == Eval(n.func, env)
            IN  IF IsError(f) THEN f
                ELSE LET a == EvalArgs(n.args, env, <<>>)
                     IN  IF IsError(a) THEN a
                         ELSE IF f.t # "function" THEN Raises("TypeError")
                         ELSE IF f.name = "<lambda>"
                         THEN IF a.xs = <<>> THEN Eval(f.body, env) ELSE Raises("TypeError")
                         ELSE ApplyBuiltin(f.name, a.xs)
      [] n.type = "Attribute" ->
            LET x == Eval(n.value, env)
            IN  IF IsError(x) THEN x
                ELSE IF IsNumeric(x) /\ n.attr = "real" THEN x
                ELSE Raises("AttributeError")

-----------------------------------------------------------------------------
(***************************************************************************)
(* execution.py: execute_formula(formula, value_objects)                   *)
(*                                                                         *)
(* A dict is modelled by the sequence of its items in insertion order.     *)
(***************************************************************************)

Item(name, obj) == [name |-> name, obj |-> obj]
DictKeys(d) == {d[i].name : i \in 1 .. Len(d)}
DictGet(d, k) == d[CHOOSE i \in 1 .. Len(d) : d[i].name = k].obj
\* d[k] = v: a present key keeps its place
DictPut(d, k, v) ==
    IF k \in DictKeys(d)
    THEN [i \in 1 .. Len(d) |-> IF d[i].name = k THEN Item(k, v) ELSE d[i]]
    ELSE Append(d, Item(k, v))

\* obj.get('scale', 'Units')
GetScale(obj) == IF "scale" \in DOMAIN obj THEN obj.scale ELSE "Units"

\* the strings that occur in one lexeme
Substrings(lexeme) == IF lexeme = "**" THEN {"*", "**"} ELSE {lexeme}

\* sub in formula, for a string within one lexeme
Occurs(sub, formula) == \E i \in 1 .. Len(formula) : sub \in Substrings(formula[i])

\* (name + '(') in formula
OccursCall(name, formula) ==
    \E i \in 1 .. Len(formula) - 1 : formula[i] = name /\ formula[i + 1] = "("

Return(v) == [kind |-> "return", value |-> v]

\* f'result of {formula}'
Description(formula) == [prefix |-> "result of ", formula |-> formula]

\* as EvalFormula, the names bound to the values in their own scale
EvalFormulaScaled(formula, value_objects) ==
    LET values == [k \in DictKeys(value_objects) |->
                      NumDiv(DictGet(value_objects, k).value,
                             ScaleFactor(GetScale(DictGet(value_objects, k))))]
        safe_dict == [k \in BuiltinNames \cup DOMAIN values |->
                         IF k \in DOMAIN values THEN values[k] ELSE Function(k)]
    IN  Eval(Parse(formula).node, safe_dict)

\* safe_dict = {'abs': abs, ...}; safe_dict.update(values)
SafeDict(value_objects) ==
    LET values == [k \in DictKeys(value_objects) |-> DictGet(value_objects, k).value]
    IN  [k \in BuiltinNames \cup DOMAIN values |->
            IF k \in DOMAIN values THEN values[k] ELSE Function(k)]

\* the value eval(formula, safe_dict) yields for a validated formula
EvalFormula(formula, value_objects) ==
    Eval(Parse(formula).node, SafeDict(value_objects))

\* the scale of the normal path (no scale conversion function in the text)
OutputScale(formula, value_objects) ==
    LET scales == [i \in 1 .. Len(value_objects) |-> GetScale(value_objects[i].obj)]
        unique_scales == {scales[i] : i \in 1 .. Len(scales)}
    IN  IF Occurs("to_percentage", formula) THEN "Units"
        ELSE IF /\ Occurs("/", formula)
                /\ Cardinality(unique_scales) = 1
                /\ unique_scales # {"Units"}
        THEN "Units"
        ELSE IF Cardinality(unique_scales) = 1 THEN CHOOSE x \in unique_scales : TRUE
        ELSE IF Occurs("/", formula) \/ Occurs("*", formula) THEN "Units"
        ELSE IF scales # <<>> THEN scales[1] ELSE "Units"

\* the scale of the conversion path
ConversionScale(formula) ==
    IF OccursCall("in_millions", formula) THEN "Millions"
    ELSE IF OccursCall("in_thousands", formula) THEN "Thousands"
    ELSE IF OccursCall("in_billions", formula) THEN "Billions"
    ELSE "Units"

\* as DisplayValue, the result not divided by the factor
DisplayValueUnscaled(result, scale_factor) == result

\* result / scale_factor if scale_factor > 1 else result
DisplayValue(result, scale_factor) ==
    IF NumLess(IntNum(1), scale_factor)
    THEN ApplyBinOp("/", result, scale_factor)
    ELSE result

\* execute_formula: the value object returned, or the exception raised
execute_formula(formula, value_objects) ==
    LET validation == validate_formula(formula, DictKeys(value_objects))
        result == EvalFormula(formula, value_objects)
        uses_scale_conversion ==
            \E func \in {"in_millions", "in_thousands", "in_billions"} :
                OccursCall(func, formula)
        output_scale ==
            IF uses_scale_conversion
            THEN ConversionScale(formula)
            ELSE OutputScale(formula, value_objects)
        scale_factor == ScaleFactor(output_scale)
        canonical_value == ApplyBinOp("*", result, scale_factor)
        display_value == DisplayValue(result, scale_factor)
    IN  IF validation.kind = "raise" THEN validation
        ELSE IF IsError(result) THEN [kind |-> "raise", type |-> result.type]
        ELSE IF uses_scale_conversion
        THEN IF IsError(canonical_value)
             THEN [kind |-> "raise", type |-> canonical_value.type]
             ELSE Return([value |-> canonical_value, display_value |-> result,
                          scale |-> output_scale, source |-> "calculated",
                          description |-> Description(formula)])
        ELSE IF IsError(display_value)
        THEN [kind |-> "raise", type |-> display_value.type]
        ELSE Return([value |-> result, display_value |-> display_value,
                     scale |-> output_scale, source |-> "calculated",
                     description |-> Description(formula)])

-----------------------------------------------------------------------------
(***************************************************************************)
(* bill234's execution.py: the same functions without the in_* scale       *)
(* conversions and with its own order of the scale tests                   *)
(***************************************************************************)

\* the functions bill234's execute_formula puts in safe_dict
bill234_BuiltinNames == {"abs", "min", "max", "round", "to_percentage"}

bill234_ValidateTree(tree, variable_names) ==
    IF ~tree.ok
    THEN [kind |-> "raise", type |-> "SyntaxError"]
    ELSE IF WalkNames(tree.node) \ (variable_names \cup bill234_BuiltinNames) # {}
    THEN [kind |-> "raise", type |-> "ValueError",
          undefined |-> WalkNames(tree.node) \ (variable_names \cup bill234_BuiltinNames),
          available |-> variable_names]
    ELSE [kind |-> "return", value |-> TRUE]

bill234_validate_formula(formula, variable_names) ==
    bill234_ValidateTree(Parse(formula), variable_names)

\* eval(formula, safe_dict) for a validated formula
bill234_EvalFormula(formula, value_objects) ==
    LET values == [k \in DictKeys(value_objects) |-> DictGet(value_objects, k).value]
        safe_dict == [k \in bill234_BuiltinNames \cup DOMAIN values |->
                         IF k \in DOMAIN values THEN values[k] ELSE Function(k)]
    IN  Eval(Parse(formula).node, safe_dict)

bill234_OutputScale(formula, value_objects) ==
    LET scales == [i \in 1 .. Len(value_objects) |-> GetScale(value_objects[i].obj)]
        unique_scales == {scales[i] : i \in 1 .. Len(scales)}
    IN  IF Cardinality(unique_scales) = 1 THEN CHOOSE x \in unique_scales : TRUE
        ELSE IF Occurs("to_percentage", formula) THEN "Units"
        ELSE IF Occurs("/", formula) \/ Occurs("*", formula)
        THEN (IF scales # <<>> THEN scales[1] ELSE "Units")
        ELSE IF scales # <<>> THEN scales[1] ELSE "Units"

\* bill234's execute_formula: the value object returned, or the exception raised
bill234_ExecuteValidated(formula, value_objects, result) ==
    IF IsError(result) THEN [kind |-> "raise", type |-> result.type]
    ELSE Return([value |-> result,
                 scale |-> bill234_OutputScale(formula, value_objects),
                 source |-> "calculated",
                 description |-> Description(formula)])

bill234_execute_formula(formula, value_objects) ==
    IF bill234_validate_formula(formula, DictKeys(value_objects)).kind = "raise"
    THEN bill234_validate_formula(formula, DictKeys(value_objects))
    ELSE bill234_ExecuteValidated(formula, value_objects,
                                  bill234_EvalFormula(formula, value_objects))

-----------------------------------------------------------------------------
(***************************************************************************)
(* Calls of validate_formula and execute_formula                           *)
(***************************************************************************)

Formulas ==
    { <<>>,
      <<"a">>,
      <<"b">>,
      <<"100">>,
      <<"a", "+", "b">>,
      <<"a", "-", "b">>,
      <<"a", "*", "b">>,
      <<"a", "/", "b">>,
      <<"(", "a", "+", "b", ")", "*", "2">>,
      <<"a", "+", "z">>,
      <<"foo", "(", "a", ")">>,
      <<"abs", "(", "a", "-", "b", ")">>,
      <<"min", "(", "a", ",", "b", ")">>,
      <<"max", "(", "a", ",", "b", ")">>,
      <<"round", "(", "a", "/", "b", "*", "100", ",", "2", ")">>,
      <<"to_percentage", "(", "a", "/", "b", ")">>,
      <<"to_percentage", "(", "a", ")">>,
      <<"in_millions", "(", "a", ")">>,
      <<"in_millions", " ", "(", "a", ")">>,
      <<"in_thousands", "(", "a", "+", "b", ")">>,
      <<"in_billions", "(", "a", ")">>,
      <<"in_thousands", "(", "in_millions", "(", "a", ")", ")">>,
      <<"in_millions", "(", "a", ")", "+", "in_thousands", "(", "b", ")">>,
      <<"to_percentage", "(", "in_millions", "(", "a", ")", ")">>,
      <<"a", "**", "2">>,
      <<"a", "<", "b">>,
      <<"a", " ", "if", " ", "b", " ", "else", " ", "100">>,
      <<"a", ".", "real">>,
      <<"a", ".", "foo">>,
      <<"lambda", ":", "a">>,
      <<"'s'">>,
      <<"abs">>,
      <<"a", "(", "b", ")">>,
      <<"a", "+">>,
      <<"a", "*", " ", "*", "b">>,
      <<"(", "a", "+", "b">>,
      <<" ", "a">>,
      <<"-", "a">>,
      <<"a", "/", "b", "+", "a">>,
      <<"a", "/", "0">>,
      <<"abs", "(", "a", ")", "/", "b">> }

\* value objects as the collaborators supply them
ObjectPool ==
    { [value |-> IntNum(2000), scale |-> "Units",
       source |-> "knowledge graph", description |-> "d"],
      [value |-> IntNum(0), scale |-> "Units",
       source |-> "knowledge graph", description |-> "d"],
      [value |-> IntNum(5000000), scale |-> "Millions",
       source |-> "knowledge graph", description |-> "d"],
      [value |-> IntNum(3000), scale |-> "Thousands",
       source |-> "knowledge graph", description |-> "d"] }

\* dicts of up to two bindings, in either insertion order, and dicts with a
\* binding named as a function of safe_dict is (validate_phase1_output
\* takes every identifier as a variable name)
Bindings ==
    {<<>>}
    \cup {<<Item(k, o)>> : k \in ValueNames \cup {"abs"}, o \in ObjectPool}
    \cup {<<Item(k[1], o[1]), Item(k[2], o[2])>> :
            k \in {x \in ValueNames \X ValueNames : x[1] # x[2]}
                     \cup {<<"a", "abs">>},
            o \in ObjectPool \X ObjectPool}

NotRun == [kind |-> "not run"]

\* no formula call is made
IdleFormula ==
    /\ arg_formula = <<>>
    /\ arg_names = {}
    /\ arg_objects = <<>>
    /\ validated = NotRun
    /\ eval_result = NotRun
    /\ executed = NotRun
    /\ executed_bill234 = NotRun
    /\ n_chained = 0

\* the arguments a caller holds
InitFormula ==
    /\ arg_formula \in Formulas
    /\ arg_names \in SUBSET ValueNames
    /\ arg_objects \in Bindings
    /\ validated = NotRun
    /\ eval_result = NotRun
    /\ executed = NotRun
    /\ executed_bill234 = NotRun
    /\ n_chained = 0

\* validate_formula(formula, variable_names)
ValidateFormula ==
    /\ validated = NotRun
    /\ validated' = validate_formula(arg_formula, arg_names)
    /\ UNCHANGED <<arg_formula, arg_names, arg_objects, eval_result, executed,
                   executed_bill234, n_chained>>
    /\ UNCHANGED <<retryVars, turnVars, cacheVars>>

\* execute_formula(formula, value_objects), of takeaway and of bill234
ExecuteFormula ==
    /\ executed = NotRun
    /\ eval_result' =
          IF validate_formula(arg_formula, DictKeys(arg_objects)).kind = "return"
          THEN EvalFormula(arg_formula, arg_objects)
          ELSE NotRun
    /\ executed' = execute_formula(arg_formula, arg_objects)
    /\ executed_bill234' = bill234_execute_formula(arg_formula, arg_objects)
    /\ UNCHANGED <<arg_formula, arg_names, arg_objects, validated, n_chained>>
    /\ UNCHANGED <<retryVars, turnVars, cacheVars>>

\* formulas of the turns whose results later turns use
ChainFormulas ==
    { <<"a">>,
      <<"a", "/", "b">>,
      <<"in_millions", "(", "a", ")">>,
      <<"in_thousands", "(", "a", ")">> }

\* the caller keeps the result under a name (context['results_by_name'][name])
\* and a later turn binds it, with the other bindings, for its own formula
ExecuteWithResult ==
    /\ n_chained < MaxChain
    /\ validated = NotRun
    /\ arg_formula \in ChainFormulas
    /\ executed.kind = "return"
    /\ \E name \in ValueNames, formula \in ChainFormulas :
          /\ arg_formula' = formula
          /\ arg_objects' = DictPut(arg_objects, name, executed.value)
          /\ eval_result' =
                IF validate_formula(formula, DictKeys(arg_objects')).kind = "return"
                THEN EvalFormula(formula, arg_objects')
                ELSE NotRun
          /\ executed' = execute_formula(formula, arg_objects')
          /\ executed_bill234' = bill234_execute_formula(formula, arg_objects')
    /\ n_chained' = n_chained + 1
    /\ UNCHANGED <<arg_names, validated>>
    /\ UNCHANGED <<retryVars, turnVars, cacheVars>>

NextFormula == ValidateFormula \/ ExecuteFormula \/ ExecuteWithResult

-----------------------------------------------------------------------------
(***************************************************************************)
(* __tests__/test_example.py: the turn loop of one conversation, and       *)
(* execution.py: retrieve_values.                                          *)
(*                                                                         *)
(* Phases 1, 2A and 2B call a language model: each either raises or        *)
(* returns its output, which is an input of the turn.  The comparison with *)
(* the gold answer and the log lines are left out.                         *)
(***************************************************************************)

Sources == {"knowledge_graph", "previous_result"}

ValueSpec(source) == [source |-> source, description |-> "planned"]

\* phase1_output['values']
ValuesSpecs ==
    {<<>>}
    \cup {<<Item(n, ValueSpec(src))>> : n \in ValueNames, src \in Sources}
    \cup {<<Item("a", ValueSpec(s1)), Item("b", ValueSpec(s2))>> :
            s1 \in Sources, s2 \in Sources}

\* formula_plan['formula']
TurnFormulas == {<<"a">>, <<"a", "+", "b">>}

\* {k: v for k, v in values.items() if v.get('source') == 'knowledge_graph'}
KgValues(values) == SelectSeq(values, LAMBDA x : x.obj.source = "knowledge_graph")
\* {k: v for k, v in values.items() if v.get('source') != 'knowledge_graph'}
NonKgValues(values) == SelectSeq(values, LAMBDA x : x.obj.source # "knowledge_graph")

\* what the phases of a turn do: the phase that raises, if one does, and the
\* outputs of the phases that return
TurnInputs ==
    {inp \in [raises : {"phase1", "phase2a", "phase2b", "none"},
              values : ValuesSpecs,
              variable_name : ValueNames,
              formula : TurnFormulas] :
        /\ inp.raises = "phase1" => inp.values = <<>> /\ inp.variable_name = "a"
        /\ inp.raises = "phase2a" => KgValues(inp.values) # <<>>
        /\ inp.raises # "none" => inp.formula = <<"a">>}

\* the value object Phase 2A extracts for a name in turn t
ExtractedObject(name, t) ==
    [value |-> IF name = "a" THEN IntNum(5000000) ELSE IntNum(3000),
     scale |-> IF name = "a" THEN "Millions" ELSE "Thousands",
     source |-> "knowledge graph",
     description |-> [turn |-> t]]

\* run_phase2_llm_extraction: a value object for each KG value
Extracted(values, t) ==
    [i \in 1 .. Len(KgValues(values)) |->
        Item(KgValues(values)[i].name, ExtractedObject(KgValues(values)[i].name, t))]

\* d.update(e)
RECURSIVE DictUpdate(_, _)
DictUpdate(d, e) ==
    IF e = <<>> THEN d
    ELSE DictUpdate(DictPut(d, Head(e).name, Head(e).obj), Tail(e))

\* as RetrieveValues, a name that is not in the store being passed over
RECURSIVE RetrieveValuesFound(_, _, _)
RetrieveValuesFound(values_spec, context, value_objects) ==
    IF values_spec = <<>> THEN Return(value_objects)
    ELSE IF Head(values_spec).name \notin DictKeys(context.results_by_name)
    THEN RetrieveValuesFound(Tail(values_spec), context, value_objects)
    ELSE RetrieveValuesFound(Tail(values_spec), context,
                             DictPut(value_objects, Head(values_spec).name,
                                     DictGet(context.results_by_name,
                                             Head(values_spec).name)))

\* retrieve_values(values_spec, context): the value objects, or the exception
RECURSIVE RetrieveValues(_, _, _)
RetrieveValues(values_spec, context, value_objects) ==
    IF values_spec = <<>> THEN Return(value_objects)
    ELSE IF Head(values_spec).obj.source = "previous_result"
    THEN IF Head(values_spec).name \notin DictKeys(context.results_by_name)
         THEN [kind |-> "raise", type |-> "ValueError",
               not_found |-> Head(values_spec).name,
               available |-> [i \in 1 .. Len(context.results_by_name) |->
                                 context.results_by_name[i].name]]
         ELSE RetrieveValues(Tail(values_spec), context,
                             DictPut(value_objects, Head(values_spec).name,
                                     DictGet(context.results_by_name,
                                             Head(values_spec).name)))
    ELSE IF Head(values_spec).obj.source = "knowledge_graph"
    THEN \* the specs of the model carry no 'sparql'
         [kind |-> "raise", type |-> "ValueError",
          no_sparql |-> Head(values_spec).name]
    ELSE RetrieveValues(Tail(values_spec), context, value_objects)

retrieve_values(values_spec, context) == RetrieveValues(values_spec, context, <<>>)

\* the locals of the loop before their first assignment
UnboundFrame ==
    [phase1_output |-> [values |-> <<>>, variable_name |-> "unbound"],
     formula_plan |-> <<>>,
     value_objects |-> <<>>,
     result_obj |-> [kind |-> "unbound"]]

\* the state a turn works on; entry is what the turn appends to results
TurnState ==
    [results_by_name |-> results_by_name,
     previous_results |-> previous_results,
     llm_extracted_values |-> llm_extracted_values,
     frame |-> frame,
     entry |-> [kind |-> "running"]]

\* except Exception as e: results.append({..., 'our_answer': None, 'error': str(e)})
TurnRaised(st, t, e) == [st EXCEPT !.entry = [turn |-> t, error |-> e]]

\* previous_results[name] = {'turn': ..., 'answer': ..., 'scale': ...}
PreviousResult(t, obj) == [turn |-> t, answer |-> obj.value, scale |-> obj.scale]

\* as StoreIntermediate, without the test on previous_results
RECURSIVE StoreIntermediateAlways(_, _, _)
StoreIntermediateAlways(st, t, value_objects) ==
    IF value_objects = <<>> THEN st
    ELSE StoreIntermediateAlways(
            [st EXCEPT
                !.results_by_name =
                    DictPut(@, Head(value_objects).name, Head(value_objects).obj),
                !.previous_results =
                    DictPut(@, Head(value_objects).name,
                            PreviousResult(t, Head(value_objects).obj))],
            t, Tail(value_objects))

\* for val_name, val_obj in value_objects.items(): store it unless its name
\* is in previous_results
RECURSIVE StoreIntermediate(_, _, _)
StoreIntermediate(st, t, value_objects) ==
    IF value_objects = <<>> THEN st
    ELSE IF Head(value_objects).name \notin DictKeys(st.previous_results)
    THEN StoreIntermediate(
            [st EXCEPT
                !.results_by_name =
                    DictPut(@, Head(value_objects).name, Head(value_objects).obj),
                !.previous_results =
                    DictPut(@, Head(value_objects).name,
                            PreviousResult(t, Head(value_objects).obj))],
            t, Tail(value_objects))
    ELSE StoreIntermediate(st, t, Tail(value_objects))

\* as StoreResult, the store holding nothing but the result afterwards
StoreResultAlone(st, t) ==
    [st EXCEPT
        !.results_by_name =
            <<Item(st.frame.phase1_output.variable_name, st.frame.result_obj)>>,
        !.previous_results =
            <<Item(st.frame.phase1_output.variable_name,
                   PreviousResult(t, st.frame.result_obj))>>,
        !.entry = [turn |-> t,
                   our_answer |-> st.frame.result_obj.display_value,
                   formula |-> st.frame.formula_plan]]

\* context['results_by_name'][var_name] = result_obj and what follows it
StoreResult(st, t) ==
    [st EXCEPT
        !.results_by_name =
            DictPut(@, st.frame.phase1_output.variable_name, st.frame.result_obj),
        !.previous_results =
            DictPut(@, st.frame.phase1_output.variable_name,
                    PreviousResult(t, st.frame.result_obj)),
        !.entry = [turn |-> t,
                   our_answer |-> st.frame.result_obj.display_value,
                   formula |-> st.frame.formula_plan]]

\* Phase 4 has run execute_formula with the outcome r
Phase4Done(st, t, r) ==
    IF r.kind = "raise" THEN TurnRaised(st, t, r)
    ELSE StoreResult(
            StoreIntermediate([st EXCEPT !.frame.result_obj = r.value],
                              t, st.frame.value_objects),
            t)

Phase4(st, t) ==
    Phase4Done(st, t, execute_formula(st.frame.formula_plan, st.frame.value_objects))

\* Phase 3 has run retrieve_values with the outcome r
Phase3Done(st, t, r) ==
    IF r.kind = "raise" THEN TurnRaised(st, t, r)
    ELSE Phase4([st EXCEPT !.frame.value_objects = DictUpdate(@, r.value)], t)

\* value_objects = context.get('llm_extracted_values', {}).copy()
Phase3Start(st) == [st EXCEPT !.frame.value_objects = st.llm_extracted_values.dict]

Phase3(st, t) ==
    IF NonKgValues(st.frame.phase1_output.values) # <<>>
    THEN Phase3Done(Phase3Start(st), t,
                    retrieve_values(NonKgValues(st.frame.phase1_output.values),
                                    [results_by_name |-> st.results_by_name]))
    ELSE Phase4(Phase3Start(st), t)

Phase2B(st, t, inp) ==
    IF inp.raises = "phase2b"
    THEN TurnRaised(st, t, [kind |-> "raise", type |-> "Exception", phase |-> "2B"])
    ELSE Phase3([st EXCEPT !.frame.formula_plan = inp.formula], t)

Phase2A(st, t, inp) ==
    IF KgValues(st.frame.phase1_output.values) # <<>>
    THEN IF inp.raises = "phase2a"
         THEN TurnRaised(st, t, [kind |-> "raise", type |-> "Exception", phase |-> "2A"])
         ELSE Phase2B([st EXCEPT !.llm_extracted_values =
                                     [present |-> TRUE,
                                      dict |-> Extracted(st.frame.phase1_output.values, t)]],
                      t, inp)
    ELSE Phase2B(st, t, inp)

\* the body of the loop for turn number t
TurnBody(st, t, inp) ==
    IF inp.raises = "phase1"
    THEN TurnRaised(st, t, [kind |-> "raise", type |-> "Exception", phase |-> "1"])
    ELSE Phase2A([st EXCEPT !.frame.phase1_output =
                                [values |-> inp.values,
                                 variable_name |-> inp.variable_name]],
                 t, inp)

\* context = {'results_by_name': {}, ...}; results = []; previous_results = {}
InitTurns ==
    /\ results_by_name = <<>>
    /\ previous_results = <<>>
    /\ llm_extracted_values = [present |-> FALSE, dict |-> <<>>]
    /\ results = <<>>
    /\ frame = UnboundFrame

TurnEnds(st) ==
    /\ results_by_name' = st.results_by_name
    /\ previous_results' = st.previous_results
    /\ llm_extracted_values' = st.llm_extracted_values
    /\ frame' = st.frame
    /\ results' = Append(results, st.entry)

\* one iteration of: for turn in turns
Turn ==
    /\ Len(results) < MaxTurns
    /\ \E inp \in TurnInputs : TurnEnds(TurnBody(TurnState, Len(results) + 1, inp))
    /\ UNCHANGED <<retryVars, formulaVars, cacheVars>>

-----------------------------------------------------------------------------
(***************************************************************************)
(* bill234 execution.py: load_graph and the SQLite cache of the knowledge  *)
(* graphs.  A turtle file is its st_mtime and the set of triples parsing   *)
(* it gives; the database is the cache_metadata table and, per graph       *)
(* identifier, the triples of the store.  A file is changed by writing or  *)
(* touching it, which stamps it with the time of the change; the clock     *)
(* moves between two changes (the test sleeps before it touches).          *)
(***************************************************************************)

Examples == {"9", "10"}

\* what a turtle file can hold
TripleSets == {{"t1"}, {"t1", "t2"}}

\* as _is_cache_valid, the row not compared with the file
_is_cache_valid_if_row(example_id, turtle_path, db_path) ==
    /\ db_path.exists
    /\ \E row \in db_path.cache_metadata : row.example_id = example_id

\* _is_cache_valid(example_id, turtle_path, db_path)
_is_cache_valid(example_id, turtle_path, db_path) ==
    IF ~db_path.exists THEN FALSE
    ELSE IF ~\E row \in db_path.cache_metadata : row.example_id = example_id
    THEN FALSE
    ELSE LET row == CHOOSE r \in db_path.cache_metadata : r.example_id = example_id
         IN  row.turtle_mtime >= turtle_path.st_mtime

\* the files as the test finds them, and no cache database
InitCache ==
    /\ turtle = [e \in Examples |-> [st_mtime |-> 0, triples |-> {"t1"}]]
    /\ db = [exists |-> FALSE, cache_metadata |-> {}, store |-> [e \in Examples |-> {}]]
    /\ graph = [kind |-> "none"]
    /\ ops = <<>>
    /\ now = 0

\* load_graph(example_id, use_cache): _init_cache_db, _is_cache_valid, and
\* on a miss g.remove, g.parse and _mark_cached (INSERT OR REPLACE)
LoadGraph ==
    /\ Len(ops) < MaxOps
    /\ \E example_id \in Examples, use_cache \in BOOLEAN :
          LET kg_path == turtle[example_id]
              db_path == [db EXCEPT !.exists = TRUE]
              cache_valid == _is_cache_valid(example_id, kg_path, db_path)
              rebuilt ==
                  [db_path EXCEPT
                      !.store[example_id] = kg_path.triples,
                      !.cache_metadata =
                          {r \in @ : r.example_id # example_id}
                          \cup {[example_id |-> example_id,
                                 turtle_mtime |-> kg_path.st_mtime]}]
          IN  /\ db' = IF ~use_cache THEN db
                       ELSE IF ~cache_valid THEN rebuilt ELSE db_path
              /\ graph' = IF ~use_cache
                          THEN [kind |-> "memory", triples |-> kg_path.triples]
                          ELSE [kind |-> "store", identifier |-> example_id,
                                triples |-> db'.store[example_id]]
              /\ ops' = Append(ops, [op |-> "load_graph", example_id |-> example_id,
                                     use_cache |-> use_cache])
    /\ UNCHANGED <<turtle, now>>
    /\ UNCHANGED <<retryVars, formulaVars, turnVars>>

\* the file is touched or written again, later than every change before
ChangeTurtle ==
    /\ Len(ops) < MaxOps
    /\ now' = now + 1
    /\ \E example_id \in Examples, triples \in TripleSets :
          /\ turtle' = [turtle EXCEPT ![example_id] =
                                         [st_mtime |-> now', triples |-> triples]]
          /\ ops' = Append(ops, [op |-> "change", example_id |-> example_id])
    /\ UNCHANGED <<db, graph>>
    /\ UNCHANGED <<retryVars, formulaVars, turnVars>>

\* if cache_path.exists(): cache_path.unlink()
UnlinkCache ==
    /\ Len(ops) < MaxOps
    /\ db.exists
    /\ db' = [exists |-> FALSE, cache_metadata |-> {}, store |-> [e \in Examples |-> {}]]
    /\ ops' = Append(ops, [op |-> "unlink"])
    /\ UNCHANGED <<turtle, graph, now>>
    /\ UNCHANGED <<retryVars, formulaVars, turnVars>>

NextCache == LoadGraph \/ ChangeTurtle \/ UnlinkCache

-----------------------------------------------------------------------------
(* Properties of the retry engine *)

\* the error list an attempt with outcome o ends with
ErrorsOf(o) == IF o.kind = "returns" THEN o.errors ELSE <<ExceptionText(o.message)>>

AllFailed == \A i \in 1 .. Len(outcomes) : ~Succeeds(outcomes[i])

\* C2: for max_retries >= 0 the stage function is never invoked more than
\* max_retries + 1 times; when all max_retries + 1 attempts have failed the
\* loop is over (no further invocation, no return) and what follows is the
\* raise of ValidationError, which happens after exactly max_retries + 1
\* invocations.
C2_ExhaustionAfterAllAttempts ==
    max_retries >= 0 =>
        /\ Len(rpr_calls) <= max_retries + 1
        /\ (AllFailed /\ Len(outcomes) = max_retries + 1) =>
              /\ rpr.pc \in {"loop", "raised"}
              /\ rpr.attempt > max_retries
        /\ rpr.pc = "raised" =>
              /\ rpr.exit.type = "ValidationError"
              /\ Len(rpr_calls) = max_retries + 1
              /\ AllFailed

C2_Witness ==
    /\ max_retries = MaxRetries
    /\ rpr.pc = "raised"
    /\ Len(rpr_calls) = MaxRetries + 1
    /\ \E i \in 1 .. Len(outcomes) : outcomes[i].kind = "stage_raises"
    /\ \E i \in 1 .. Len(outcomes) : outcomes[i].kind = "returns"

\* C3: run_phase_with_retry returns r only when this attempt's stage call
\* returned r and the validator returned no errors for it; every attempt
\* before the last one failed (nothing is invoked after a success), and a
\* successful attempt ends the call with that attempt's result.
C3_ReturnsOnlyValidated ==
    /\ \A i \in 1 .. Len(outcomes) - 1 : ~Succeeds(outcomes[i])
    /\ rpr.pc = "returned" =>
          /\ outcomes # <<>>
          /\ outcomes[Len(outcomes)].kind = "returns"
          /\ outcomes[Len(outcomes)].errors = <<>>
          /\ rpr.exit = Returned(outcomes[Len(outcomes)].result)
    /\ (outcomes # <<>> /\ Succeeds(outcomes[Len(outcomes)])) => rpr.pc = "returned"

C3_Witness ==
    /\ rpr.pc = "returned"
    /\ Len(outcomes) = 2
    /\ outcomes[1] = [kind |-> "returns", result |-> "r1", errors |-> <<"e1">>]
    /\ rpr.exit = Returned("r2")

\* C4: the first invocation of the stage carries no error context; the
\* invocation at attempt k >= 1 carries attempt = k, and after a validation
\* failure at attempt k-1 the errors and the result of that attempt.
C4_ContextFromPreviousAttempt ==
    \A i \in 1 .. Len(rpr_calls) :
        IF i = 1
        THEN rpr_calls[i] = NoArgument
        ELSE /\ rpr_calls[i] # NoArgument
             /\ rpr_calls[i] # NoContext
             /\ rpr_calls[i].attempt = i - 1
             /\ outcomes[i - 1].kind = "returns" =>
                   /\ rpr_calls[i].errors = outcomes[i - 1].errors
                   /\ rpr_calls[i].previous_result = outcomes[i - 1].result

C4_Witness ==
    /\ Len(rpr_calls) = 3
    /\ outcomes[1] = [kind |-> "returns", result |-> "r1", errors |-> <<"e1">>]
    /\ outcomes[2] = [kind |-> "returns", result |-> "r2", errors |-> <<"e2", "e3">>]
    /\ rpr_calls[3] = ErrorContext(2, <<"e2", "e3">>, "r2")

\* C5: when the stage raises at attempt k, the context becomes
\* {attempt: k+1, errors: ["Exception: " + message], previous_result: None};
\* if k < max_retries the next invocation gets exactly that context, and
\* otherwise the loop is over and ValidationError carries that error.
C5_ExceptionBecomesContext ==
    \A i \in 1 .. Len(outcomes) :
        outcomes[i].kind = "stage_raises" =>
            LET ctx == ErrorContext(i, <<ExceptionText(outcomes[i].message)>>, None)
            IN  /\ i < Len(rpr_calls) => rpr_calls[i + 1] = ctx
                /\ i = Len(outcomes) =>
                      /\ rpr.error_context = ctx
                      /\ rpr.attempt = i
                      /\ rpr.pc = (IF rpr.exit = NoExit THEN "loop" ELSE "raised")
                      /\ rpr.pc = "raised" =>
                            (i = max_retries + 1 /\ rpr.exit = ValidationError(max_retries, ctx))

C5_Witness ==
    /\ Len(rpr_calls) = 3
    /\ outcomes[1] = [kind |-> "returns", result |-> "r1", errors |-> <<"e1">>]
    /\ outcomes[2] = [kind |-> "stage_raises", message |-> "timeout"]
    /\ rpr_calls[3].previous_result = None
    /\ rpr.result = "r1"

\* C6: for max_retries >= 0 the ValidationError raised by
\* run_phase_with_retry and by PhaseExecutor.execute carries the error list
\* of the last attempt, never the placeholder.
C6_FinalAttemptErrors ==
    max_retries >= 0 =>
        /\ rpr.pc = "raised" =>
              /\ rpr.exit.errors = ErrorsOf(outcomes[Len(outcomes)])
              /\ rpr.exit.errors # <<"Unknown error">>
        /\ exe.pc = "raised" =>
              /\ exe.exit.errors = ErrorsOf(outcomes[Len(outcomes)])
              /\ exe.exit.errors # <<"Unknown error">>

C6_Witness ==
    /\ rpr.pc = "raised"
    /\ exe.pc = "raised"
    /\ Len(outcomes) = 2
    /\ outcomes[1].kind = "returns"
    /\ outcomes[2].kind = "stage_raises"
    /\ rpr.exit.errors = <<"Exception: boom">>
    /\ exe.exit.errors = <<"Exception: boom">>

\* C7: whatever the stage or the validator raises, run_phase_with_retry
\* ends by returning or by raising ValidationError, and it raises only
\* after max_retries + 1 attempts have all failed.
C7_OnlyValidationErrorEscapes ==
    /\ rpr.pc \in {"idle", "loop", "returned", "raised"}
    /\ rpr.pc = "raised" =>
          /\ rpr.exit.kind = "raise"
          /\ rpr.exit.type = "ValidationError"
          /\ Len(outcomes) = max_retries + 1
          /\ AllFailed
    /\ rpr.exit.kind = "raise" => rpr.pc = "raised"
    /\ \A i \in 1 .. Len(outcomes) :
          (outcomes[i].kind # "returns" /\ i <= max_retries) =>
              (Len(outcomes) > i \/ rpr.pc = "loop")

C7_Witness ==
    /\ rpr.pc = "raised"
    /\ rpr.exit.type = "ValidationError"
    /\ Len(outcomes) = 3
    /\ outcomes[1].kind = "validator_raises"
    /\ outcomes[2].kind = "stage_raises"

\* the stage returned a result the validator found errors in
InvalidResult(o) == o.kind = "returns" /\ o.errors # <<>>

\* the call in progress failed validation k times and then got a valid result
ValidAfter(k) ==
    /\ Len(outcomes) = k + 1
    /\ \A i \in 1 .. k : InvalidResult(outcomes[i])
    /\ Succeeds(outcomes[k + 1])

\* C23: when the stage returns an invalid result on attempts 0 .. k-1 and a
\* valid one on attempt k, 1 <= k <= max_retries, both engines return that
\* result, and PhaseExecutor.execute has added k to retries_attempted, 1 to
\* retries_succeeded, k to validations_failed and nothing to phases_failed.
C23_ValidAfterRetries ==
    \A k \in 1 .. MaxRetries :
        (k <= max_retries /\ ValidAfter(k)) =>
            /\ rpr.pc = "returned"
            /\ rpr.exit = Returned(outcomes[k + 1].result)
            /\ exe.pc = "returned"
            /\ exe.exit = Returned(outcomes[k + 1].result)
            /\ metrics.retries_attempted = metrics_before.retries_attempted + k
            /\ metrics.retries_succeeded = metrics_before.retries_succeeded + 1
            /\ metrics.validations_failed = metrics_before.validations_failed + k
            /\ metrics.phases_failed = metrics_before.phases_failed
            /\ metrics.phases_executed = metrics_before.phases_executed + 1

\* the second call succeeds on its last attempt, after a first call that
\* has left counts in the metrics
C23_Witness ==
    /\ n_calls = 2
    /\ max_retries = MaxRetries
    /\ ValidAfter(MaxRetries)
    /\ metrics_before.validations_failed > 0
    /\ metrics.retries_attempted = metrics_before.retries_attempted + MaxRetries

\* C25: PhaseExecutor.execute and run_phase_with_retry are the same state
\* machine: at every attempt both have invoked the stage the same number of
\* times with the same error-context arguments, and both end the same way,
\* with the same result or with a ValidationError of the same message.
C25_SameStateMachine ==
    /\ exe_calls = rpr_calls
    /\ exe.pc = rpr.pc
    /\ exe.exit = rpr.exit

\* C26: after any sequence of PhaseExecutor.execute calls the metrics
\* satisfy retries_succeeded <= retries_attempted and
\* phases_failed <= phases_executed.
C26_MetricsOrdered ==
    /\ metrics.retries_succeeded <= metrics.retries_attempted
    /\ metrics.phases_failed <= metrics.phases_executed

-----------------------------------------------------------------------------
(* Properties of formula validation *)

RECURSIVE InGrammar(_)
RECURSIVE InGrammarSeq(_)

InGrammarSeq(nodes) ==
    nodes = <<>> \/ (InGrammar(Head(nodes)) /\ InGrammarSeq(Tail(nodes)))

\* the tree is built from numeric literals, identifiers, the four binary
\* operators and calls of the eight functions (a sign before an operand is
\* counted as part of this grammar)
InGrammar(n) ==
    CASE n.type = "Name" -> TRUE
      [] n.type = "Constant" -> n.value \in NumberTokens
      [] n.type = "BinOp" ->
            n.op \in {"+", "-", "*", "/"} /\ InGrammar(n.left) /\ InGrammar(n.right)
      [] n.type = "UnaryOp" -> InGrammar(n.operand)
      [] n.type = "Call" ->
            /\ n.func.type = "Name"
            /\ n.func.id \in BuiltinNames
            /\ InGrammarSeq(n.args)
      [] OTHER -> FALSE

\* C1: validate_formula accepts a formula only if it is built from numeric
\* literals, identifiers, + - * /, parentheses and calls of the eight
\* whitelisted functions, and execute_formula evaluates no other formula.
C1_OnlyWhitelistedGrammar ==
    /\ validated = [kind |-> "return", value |-> TRUE] =>
          InGrammar(Parse(arg_formula).node)
    /\ eval_result # NotRun => InGrammar(Parse(arg_formula).node)

\* the identifiers the text refers to: its name lexemes, but for the
\* attribute names that follow a '.'
Identifiers(text) ==
    {Lex(text)[i] : i \in {j \in 1 .. Len(Lex(text)) :
                              /\ Lex(text)[j] \in NameTokens
                              /\ j = 1 \/ Lex(text)[j - 1] # "."}}

UndefinedIdentifiers(text, names) == Identifiers(text) \ (names \cup BuiltinNames)

\* C10: validate_formula raises ValueError exactly when the formula is
\* syntactically valid and refers to an identifier that is neither one of the
\* supplied names nor one of the eight function names; the error names these
\* identifiers and the supplied names; a syntactically valid formula without
\* such an identifier makes it return True.
C10_UndefinedIdentifier ==
    validated # NotRun =>
        /\ (validated.kind = "raise" /\ validated.type = "ValueError") <=>
              /\ Parse(arg_formula).ok
              /\ UndefinedIdentifiers(arg_formula, arg_names) # {}
        /\ (validated.kind = "raise" /\ validated.type = "ValueError") =>
              /\ validated.undefined = UndefinedIdentifiers(arg_formula, arg_names)
              /\ validated.available = arg_names
        /\ (/\ Parse(arg_formula).ok
            /\ UndefinedIdentifiers(arg_formula, arg_names) = {}) =>
              validated = [kind |-> "return", value |-> TRUE]

C10_Witness ==
    /\ arg_formula = <<"a", "+", "z">>
    /\ arg_names = {"a"}
    /\ validated = [kind |-> "raise", type |-> "ValueError",
                    undefined |-> {"z"}, available |-> {"a"}]

\* C29: the formula validators agree: validate_phase2b_formula returns the
\* empty error list exactly when takeaway's validate_formula accepts, and
\* bill234's validate_formula accepts exactly the formulas takeaway's does.
C29_ValidatorsAgree ==
    validated # NotRun =>
        /\ validate_phase2b_formula(arg_formula, arg_names) = <<>>
              <=> validated.kind = "return"
        /\ bill234_validate_formula(arg_formula, arg_names).kind = "return"
              <=> validated.kind = "return"

-----------------------------------------------------------------------------
(* Properties of formula execution *)

Executed == executed # NotRun
ReturnedObject == executed.kind = "return"
RaisedError(type) == executed.kind = "raise" /\ executed.type = type

\* C11: execute_formula validates before it evaluates: a malformed formula
\* raises SyntaxError (also when it names unknown variables), a well-formed
\* formula with an undefined identifier raises the undefined-variable
\* ValueError; in both cases no evaluation has run, nothing is returned, and
\* the call leaves the bindings as they were.
C11_ValidatesBeforeEvaluating ==
    [][(executed = NotRun /\ executed' # NotRun) =>
          /\ arg_objects' = arg_objects
          /\ ~Parse(arg_formula).ok =>
                /\ executed' = [kind |-> "raise", type |-> "SyntaxError"]
                /\ eval_result' = NotRun
          /\ (/\ Parse(arg_formula).ok
              /\ UndefinedIdentifiers(arg_formula, DictKeys(arg_objects)) # {}) =>
                /\ executed' =
                      [kind |-> "raise", type |-> "ValueError",
                       undefined |->
                           UndefinedIdentifiers(arg_formula, DictKeys(arg_objects)),
                       available |-> DictKeys(arg_objects)]
                /\ eval_result' = NotRun]_vars

\* a malformed formula that names an unknown variable
C11_Witness ==
    /\ arg_formula = <<"a", "+">>
    /\ arg_objects = <<>>
    /\ executed = [kind |-> "raise", type |-> "SyntaxError"]
    /\ eval_result = NotRun

\* C12: once the formula has passed validation against the bindings,
\* execute_formula does not fail at runtime: for a formula of the arithmetic
\* grammar and numeric bindings, zero-valued ones included, it returns a
\* value object.
\* (a function name is counted as part of the grammar where it is called)
C12_ValidatedNeverRaises ==
    (/\ Executed
     /\ validate_formula(arg_formula, DictKeys(arg_objects)).kind = "return"
     /\ InGrammar(Parse(arg_formula).node)
     /\ \A i \in 1 .. Len(arg_formula) :
            arg_formula[i] \in BuiltinNames =>
                i < Len(arg_formula) /\ arg_formula[i + 1] = "(") => ReturnedObject

\* value == display_value * scaleFactor(scale), for an object with numbers
Consistent(obj) ==
    (IsNumeric(obj.value) /\ IsNumeric(obj.display_value)) =>
        /\ obj.scale \in DOMAIN SCALE_FACTORS
        /\ AsNum(obj.value) =
              NumMul(AsNum(obj.display_value), SCALE_FACTORS[obj.scale])

\* the bindings that are results of earlier executions
StoredResults ==
    {arg_objects[i].obj : i \in {j \in 1 .. Len(arg_objects) :
                                    arg_objects[j].obj.source = "calculated"}}

ConversionNames == {"in_millions", "in_thousands", "in_billions"}

ConversionTarget(name) ==
    CASE name = "in_millions" -> "Millions"
      [] name = "in_thousands" -> "Thousands"
      [] name = "in_billions" -> "Billions"

\* the whole formula is a call of one of the in_* functions
OutermostIsConversion(node) ==
    /\ node.type = "Call"
    /\ node.func.type = "Name"
    /\ node.func.id \in ConversionNames

\* C14: when the outermost call of the formula is in_millions, in_thousands
\* or in_billions, the returned scale is that call's target, display_value
\* is the raw evaluation result and value is display_value * factor, also
\* when another in_* function occurs inside the call (stated for formulas
\* written without blanks).
C14_OutermostConversionDecides ==
    (/\ ReturnedObject
     /\ Lex(arg_formula) = arg_formula
     /\ OutermostIsConversion(Parse(arg_formula).node)) =>
        /\ executed.value.scale = ConversionTarget(Parse(arg_formula).node.func.id)
        /\ executed.value.display_value = eval_result
        /\ executed.value.value =
              NumMul(AsNum(eval_result), SCALE_FACTORS[executed.value.scale])

\* the lexemes of the formula
Lexemes(formula) == {formula[i] : i \in 1 .. Len(formula)}

\* the scales of the bindings
OperandScales == {GetScale(arg_objects[i].obj) : i \in 1 .. Len(arg_objects)}

\* the formula is to_percentage( inner ): the inner text
PercentageArgument(formula) == SubSeq(formula, 3, Len(formula) - 1)

IsPercentageCall(formula) ==
    /\ Len(formula) >= 4
    /\ formula[1] = "to_percentage"
    /\ formula[2] = "("
    /\ formula[Len(formula)] = ")"
    /\ Parse(PercentageArgument(formula)).ok

\* the percentage rule, for what a copy of execute_formula did
PercentageRule(outcome) ==
    outcome.kind = "return" =>
        /\ outcome.value.scale = "Units"
        /\ IsPercentageCall(arg_formula) =>
              outcome.value.value =
                  NumMul(IntNum(100),
                         AsNum(EvalFormula(PercentageArgument(arg_formula), arg_objects)))

\* C15: a formula with to_percentage and no in_* conversion returns scale
\* Units, whatever the scales of the operands (also when they all share one
\* scale that is not Units), and when the formula is to_percentage(ratio) the
\* value is 100 times the value of the ratio; in takeaway's and in bill234's
\* execute_formula.
C15_PercentageIsUnits ==
    (/\ Executed
     /\ "to_percentage" \in Lexemes(arg_formula)
     /\ Lexemes(arg_formula) \cap ConversionNames = {}) =>
        /\ PercentageRule(executed)
        /\ PercentageRule(executed_bill234)

\* no in_* conversion and no to_percentage in the formula
PlainFormula ==
    Lexemes(arg_formula) \cap (ConversionNames \cup {"to_percentage"}) = {}

TopLevelOperator(node) == IF node.type = "BinOp" THEN node.op ELSE "none"

\* C16: without in_* and to_percentage, when every operand has the same scale
\* S and S is not Units, the result is Units exactly when the top-level
\* operator of the formula is division; with + or - at the top level and a
\* division inside a sub-expression the result keeps S.
C16_RatioOnlyForTopLevelDivision ==
    (/\ ReturnedObject
     /\ PlainFormula
     /\ TopLevelOperator(Parse(arg_formula).node) # "none"
     /\ Cardinality(OperandScales) = 1
     /\ OperandScales # {"Units"}) =>
        IF TopLevelOperator(Parse(arg_formula).node) = "/"
        THEN executed.value.scale = "Units"
        ELSE {executed.value.scale} = OperandScales

\* C17: when every operand has the same scale S and neither an in_*
\* conversion, nor to_percentage, nor a top-level division of operands that
\* are not in Units is present, the result has scale S, its value is the
\* result of the arithmetic on the canonical values and its display_value is
\* the value divided by the factor of S.
C17_SharedScaleIsKept ==
    (/\ ReturnedObject
     /\ PlainFormula
     /\ Cardinality(OperandScales) = 1
     /\ ~(/\ TopLevelOperator(Parse(arg_formula).node) = "/"
          /\ OperandScales # {"Units"})) =>
        /\ {executed.value.scale} = OperandScales
        /\ executed.value.value = eval_result
        /\ IsNumeric(eval_result) =>
              AsNum(executed.value.display_value) =
                  NumDiv(AsNum(eval_result), ScaleFactor(executed.value.scale))

ScaleIsUnits(outcome) == outcome.kind = "return" => outcome.value.scale = "Units"

\* C18: for operands of mixed scales and a formula with a multiplication or
\* a division (no in_* conversion, no to_percentage) the result is in Units,
\* in takeaway's and in bill234's execute_formula.
C18_MixedProductIsUnits ==
    (/\ Executed
     /\ PlainFormula
     /\ Cardinality(OperandScales) > 1
     /\ Lexemes(arg_formula) \cap {"*", "/"} # {}) =>
        /\ ScaleIsUnits(executed)
        /\ ScaleIsUnits(executed_bill234)

\* the first operand as written: the first lexeme that is a bound name
FirstOperand(formula) ==
    formula[CHOOSE i \in 1 .. Len(formula) :
                /\ formula[i] \in DictKeys(arg_objects)
                /\ \A j \in 1 .. i - 1 : formula[j] \notin DictKeys(arg_objects)]

\* C19: for operands of mixed scales and a formula that only adds and
\* subtracts them, the result has the scale of the first operand written in
\* the formula, in whatever order the bindings were supplied.
C19_FirstOperandOfFormula ==
    (/\ ReturnedObject
     /\ PlainFormula
     /\ Cardinality(OperandScales) > 1
     /\ DictKeys(arg_objects) \subseteq Identifiers(arg_formula)
     /\ Lexemes(arg_formula) \cap {"+", "-"} # {}
     /\ Lexemes(arg_formula) \cap {"*", "/", "**"} = {}) =>
        executed.value.scale = GetScale(DictGet(arg_objects, FirstOperand(arg_formula)))

\* C20: identity: executing the formula "x" with x bound to a value object V
\* returns a value object whose value is V.value, for every name x and every
\* V, the results of earlier executions included.
C20_Identity ==
    \A x \in ValueNames :
        (/\ Executed
         /\ arg_formula = <<x>>
         /\ x \in DictKeys(arg_objects)) =>
            /\ ReturnedObject
            /\ executed.value.value = DictGet(arg_objects, x).value

\* the identity on a stored result in Thousands
C20_Witness ==
    /\ ReturnedObject
    /\ arg_formula = <<"a">>
    /\ DictKeys(arg_objects) = {"a"}
    /\ DictGet(arg_objects, "a") \in StoredResults
    /\ DictGet(arg_objects, "a").scale = "Thousands"
    /\ executed.value.value = IntNum(3000)
    /\ executed.value.display_value = IntNum(3)

\* the bindings whose names occur in the formula
ReferencedBindings(formula, value_objects) ==
    SelectSeq(value_objects, LAMBDA x : x.name \in Lexemes(formula))

\* C27: the object execute_formula returns depends only on the formula and
\* the bindings it references: it is the object the call returns when
\* every binding whose name does not occur in the formula is removed.
C27_UnreferencedBindingsIrrelevant ==
    ReturnedObject =>
        executed = execute_formula(arg_formula,
                                   ReferencedBindings(arg_formula, arg_objects))

\* C28: each whitelisted function name a formula uses denotes its fixed
\* implementation in the environment the formula is evaluated in: no
\* binding replaces it.
C28_FunctionsKeepTheirMeaning ==
    eval_result # NotRun =>
        \A k \in BuiltinNames \cap Lexemes(arg_formula) :
            SafeDict(arg_objects)[k] = Function(k)

\* the formula is f(x) for a conversion function f and a bound name x whose
\* canonical value is a multiple of the factor f divides by
ConvertsMultiple(f, x) ==
    /\ arg_formula = <<f, "(", x, ")">>
    /\ x \in DictKeys(arg_objects)
    /\ NumIsInteger(NumDiv(DictGet(arg_objects, x).value,
                           ScaleFactor(ConversionTarget(f))))

-----------------------------------------------------------------------------
(* Properties of the value store *)

\* the turn that has just run reached the end of the try block
TurnSucceeded(rs) == rs # <<>> /\ "error" \notin DOMAIN rs[Len(rs)]

FromFailedTurn(obj) ==
    /\ obj.source = "knowledge graph"
    /\ obj.description.turn \in 1 .. Len(results)
    /\ "error" \in DOMAIN results[obj.description.turn]

\* C9: a turn that fails leaves the store without the values extracted in
\* it, also after later turns: no later turn stores such a value, and no
\* later turn's formula that refers to its name is evaluated with it.
C9_FailedTurnLeavesNoValues ==
    /\ \A i \in 1 .. Len(results_by_name) : ~FromFailedTurn(results_by_name[i].obj)
    /\ TurnSucceeded(results) =>
          \A i \in 1 .. Len(frame.value_objects) :
              frame.value_objects[i].name \in Identifiers(frame.formula_plan) =>
                  ~FromFailedTurn(frame.value_objects[i].obj)

\* the names the turn that has just run looked up as previous results
LookedUp(values) == DictKeys(NonKgValues(values))

\* the turn that has just run got its value objects from retrieve_values
Retrieved(rs) ==
    /\ rs # <<>>
    /\ "error" \in DOMAIN rs[Len(rs)] =>
          /\ "phase" \notin DOMAIN rs[Len(rs)].error
          /\ "not_found" \notin DOMAIN rs[Len(rs)].error

\* C21: the store only grows: a turn, failed or not, removes no name; and
\* the lookup of a name stored in an earlier turn does not fail: no turn
\* ends with the not-found error for a stored name, and when
\* retrieve_values returns, the name is bound to the stored value object.
C21_StoreOnlyGrows ==
    [][/\ DictKeys(results_by_name) \subseteq DictKeys(results_by_name')
       /\ results' # results =>
             /\ ("error" \in DOMAIN results'[Len(results')]
                 /\ "not_found" \in DOMAIN results'[Len(results')].error) =>
                    results'[Len(results')].error.not_found
                        \notin DictKeys(results_by_name)
             /\ (/\ Retrieved(results')
                 /\ frame'.phase1_output.variable_name # "unbound") =>
                    \A n \in LookedUp(frame'.phase1_output.values) :
                        /\ n \in DictKeys(results_by_name)
                        /\ DictGet(frame'.value_objects, n)
                              = DictGet(results_by_name, n)]_vars

\* the entry the turn that has just run appended to results
LastEntry(rs) == rs[Len(rs)]

\* the turn that has just run called retrieve_values
CalledRetrieve(rs, f) ==
    /\ rs # <<>>
    /\ "error" \in DOMAIN LastEntry(rs) => "phase" \notin DOMAIN LastEntry(rs).error
    /\ LookedUp(f.phase1_output.values) # {}

\* the names of a dict as list(d.keys()) gives them
KeyList(d) == [i \in 1 .. Len(d) |-> d[i].name]

\* C22: a turn that looks up a name the store does not hold ends with the
\* not-found error, which names the first such name and carries the list
\* of the names the store holds (the empty list for an empty store); no
\* value retrieved before the failure is passed on, and the store is as
\* it was before the call.
C22_MissingNameRaises ==
    [][(/\ results' # results
        /\ CalledRetrieve(results', frame')
        /\ ~(LookedUp(frame'.phase1_output.values)
               \subseteq DictKeys(results_by_name))) =>
          /\ "error" \in DOMAIN LastEntry(results')
          /\ "not_found" \in DOMAIN LastEntry(results').error
          /\ LastEntry(results').error.type = "ValueError"
          /\ LastEntry(results').error.not_found
                \in LookedUp(frame'.phase1_output.values)
                      \ DictKeys(results_by_name)
          /\ LastEntry(results').error.available = KeyList(results_by_name)
          /\ frame'.value_objects = llm_extracted_values'.dict
          /\ results_by_name' = results_by_name
          /\ previous_results' = previous_results]_vars

\* turn 2 finds a in the store and then fails to find b
C22_Witness ==
    /\ Len(results) = 2
    /\ "error" \in DOMAIN results[2]
    /\ "not_found" \in DOMAIN results[2].error
    /\ results[2].error.not_found = "b"
    /\ results[2].error.available = <<"a">>
    /\ LookedUp(frame.phase1_output.values) = {"a", "b"}

\* turn 2 looks up b, the result of turn 1, and computes with it
C21_Witness ==
    /\ Len(results) = 2
    /\ TurnSucceeded(results)
    /\ "error" \notin DOMAIN results[1]
    /\ LookedUp(frame.phase1_output.values) = {"b"}
    /\ frame.phase1_output.variable_name = "a"
    /\ DictGet(frame.value_objects, "b").source = "calculated"
    /\ DictGet(frame.value_objects, "b") = DictGet(results_by_name, "b")

-----------------------------------------------------------------------------
(* Properties of the knowledge-graph cache *)

\* the last thing that happened
LastOp == ops[Len(ops)]

CachedLoad(example_id) ==
    [op |-> "load_graph", example_id |-> example_id, use_cache |-> TRUE]

\* C24: the validity of the cache follows the turtle file: when
\* load_graph(example, use_cache=True) has completed _is_cache_valid is
\* true and the graph returned holds the triples an uncached load gives;
\* when the file has been changed, its mtime increased, _is_cache_valid is
\* false, until the next cached load.
C24_CacheFollowsFile ==
    \A example_id \in Examples :
        /\ (ops # <<>> /\ LastOp = CachedLoad(example_id)) =>
              /\ _is_cache_valid(example_id, turtle[example_id], db)
              /\ graph.triples = turtle[example_id].triples
        /\ (ops # <<>> /\ LastOp = [op |-> "change", example_id |-> example_id]) =>
              ~_is_cache_valid(example_id, turtle[example_id], db)

\* load, change of the file's content and mtime, load again
C24_Witness ==
    /\ ops = <<CachedLoad("9"), [op |-> "change", example_id |-> "9"], CachedLoad("9")>>
    /\ turtle["9"].triples = {"t1", "t2"}
    /\ graph.triples = {"t1", "t2"}
    /\ _is_cache_valid("9", turtle["9"], db)

-----------------------------------------------------------------------------
(* Specifications *)

\* the retry engine; no formula call is made
InitOfRetry == InitRetry /\ IdleFormula /\ InitTurns /\ InitCache

SpecRetry == InitOfRetry /\ [][NextRetry]_vars

\* calls of validate_formula and execute_formula; the retry engine is idle
InitOfFormula == InitRetry /\ InitFormula /\ InitTurns /\ InitCache

SpecFormula == InitOfFormula /\ [][NextFormula]_vars

\* the turns of one conversation; the other parts are idle
InitOfTurns == InitRetry /\ IdleFormula /\ InitTurns /\ InitCache

SpecTurns == InitOfTurns /\ [][Turn]_vars

\* loads of the knowledge graphs and changes of their files; the other
\* parts are idle
InitOfCache == InitRetry /\ IdleFormula /\ InitTurns /\ InitCache

SpecCache == InitOfCache /\ [][NextCache]_vars

=============================================================================
